---- MODULE Spec2Model ----
(***************************************************************************)
(* Domain-Status-Checker: the per-domain status resolution of              *)
(* domainStatus.py and domain_status_info.py (class DomainStatus).         *)
(*                                                                         *)
(* Strings are sequences of one-character strings.  The network (HTTP      *)
(* probe, DNS, WHOIS) is the environment: every call draws its outcome     *)
(* nondeterministically from the outcomes the library can produce.         *)
(***************************************************************************)
EXTENDS Integers, Sequences, FiniteSets, TLC

(***************************************************************************)
(* Bounds of the model.                                                    *)
(***************************************************************************)
\* longest input file, in lines
MaxLines == 3
\* environment outcomes other than the nominal one (200 / resolved / found)
\* that one batch run may meet
MaxFaults == 2
\* longest free tail of a normalizer input, in characters
MaxBody == 2

(***************************************************************************)
(* Program constants.                                                      *)
(***************************************************************************)
\* TIMEOUT = 5 (seconds)
TIMEOUT == 5

(***************************************************************************)
(* String library (str.startswith, str.lstrip, '%s' concatenation).        *)
(***************************************************************************)
HTTP == <<"h", "t", "t", "p", ":", "/", "/">>
HTTPS == <<"h", "t", "t", "p", "s", ":", "/", "/">>
WWW == <<"w", "w", "w", ".">>
SEP == <<":", "/", "/">>
HTTP_WWW == HTTP \o WWW
HTTPS_WWW == HTTPS \o WWW
\* the character set of the argument of host.lstrip('https://')
LSTRIP_CHARS == {"h", "t", "p", "s", ":", "/"}
Digits == {"0", "1", "2", "3", "4", "5", "6", "7", "8", "9"}

\* s.startswith(p)
StartsWith(s, p) == Len(s) >= Len(p) /\ SubSeq(s, 1, Len(p)) = p

\* p in s (substring test)
Contains(s, p) ==
  \E k \in 1..(Len(s) - Len(p) + 1) : SubSeq(s, k, k + Len(p) - 1) = p

\* s.lstrip(chars): drops the longest prefix made of characters of chars
RECURSIVE lstrip(_, _)
lstrip(s, chars) ==
  IF s # <<>> /\ Head(s) \in chars THEN lstrip(Tail(s), chars) ELSE s

\* s.rfind(c), 1-based; 0 when c does not occur
rfind(s, c) ==
  IF \E k \in 1..Len(s) : s[k] = c
  THEN CHOOSE k \in 1..Len(s) : s[k] = c /\ \A j \in (k + 1)..Len(s) : s[j] # c
  ELSE 0

(***************************************************************************)
(* Host Normalizer: DomainStatus.left_strip_url.                           *)
(***************************************************************************)
\* a normalizer that cuts the seven characters of 'http://' off any entry
\* that starts with it
left_strip_url_slice(host) ==
  IF StartsWith(host, HTTP) THEN SubSeq(host, Len(HTTP) + 1, Len(host)) ELSE host

\* a normalizer that also strips the 'www.' characters
left_strip_url_www(host) ==
  IF StartsWith(host, HTTP_WWW) \/ StartsWith(host, HTTPS_WWW)
  THEN lstrip(host, LSTRIP_CHARS \cup {"w", "."})
  ELSE host

left_strip_url(host) ==
  IF StartsWith(host, HTTP_WWW) \/ StartsWith(host, HTTPS_WWW)
  THEN lstrip(host, LSTRIP_CHARS)
  ELSE host


(***************************************************************************)
(* State.                                                                  *)
(***************************************************************************)
VARIABLES
  impl,            \* which script runs: "domainStatus" or "domain_status_info"
  py,              \* major version of the interpreter running it (2 or 3)
  WHOIS,           \* module flag WHOIS: the whois library could be imported
  name_registrar,  \* argument name_registrar of add_status_to_html
  feed_list,       \* the stripped lines of the input file
  parse_length,    \* argument parse_length of add_status_to_html
  url_list,        \* the entries selected for processing
  pc,              \* position of add_status_to_html / get_status_code
  idx,             \* 1-based position in url_list of the entry in the loop
  row_nr,          \* local row_nr
  rows,            \* the <tr> rows appended to the html file, in order
  conn,            \* the HTTPConnection of get_status_code: none, open, closed
  light,           \* what the HEAD request of the current probe met
  fallbacks,       \* urlopen requests issued by the current probe
  probe,           \* the current get_status_code call: idle, running, returned, raised
  status_code,     \* local status_code
  ip_value,        \* local ip_value
  exc,             \* the exception that left add_status_to_html, or "none"
  faults,          \* non-nominal environment outcomes met so far
  net,             \* network calls made so far (HTTP, DNS, WHOIS)
  steps,           \* the steps taken for the entry in the loop, in order
  nin,             \* normalizer check: the input string
  nout,            \* normalizer check: left_strip_url(nin)
  nout2,           \* normalizer check: left_strip_url(nout)
  npc,             \* normalizer check: position
  eq_rows1,        \* comparison: the rows domainStatus.py has written
  eq_rows2,        \* comparison: the rows domain_status_info.py has written
  eq_exit1,        \* comparison: domainStatus.py is running, done, or the exception that ended it
  eq_exit2         \* comparison: the same for domain_status_info.py

batchVars ==
  <<impl, py, WHOIS, name_registrar, feed_list, parse_length, url_list, pc, idx,
    row_nr, rows, conn, light, fallbacks, probe, status_code, ip_value, exc,
    faults, net, steps>>
normVars == <<nin, nout, nout2, npc>>
equivVars == <<eq_rows1, eq_rows2, eq_exit1, eq_exit2>>
vars == <<batchVars, normVars, equivVars>>

(***************************************************************************)
(* Values.                                                                 *)
(***************************************************************************)
V1 == "domainStatus"
V2 == "domain_status_info"

\* the value None / an unset local
None == [src |-> "none", kind |-> "none", code |-> 0, detail |-> ""]

\* '%i -- %s' % (status, reason)
StatusLine(src, code) ==
  [src |-> src, kind |-> "status", code |-> code, detail |-> "reason"]

\* a timed-out result that reports the seconds as milliseconds
TimedOut_seconds(src) ==
  [src |-> src, kind |-> "timeout", code |-> TIMEOUT, detail |-> "timed out"]

\* 'timed out (%i ms)' % (TIMEOUT * 1000)
TimedOut(src) ==
  [src |-> src, kind |-> "timeout", code |-> TIMEOUT * 1000, detail |-> "timed out"]

\* an exception object (or its reason) returned as the status
ErrorValue(src, name) ==
  [src |-> src, kind |-> "error", code |-> 0, detail |-> name]

\* the bare integer of response.getcode()
BareCode(src, code) ==
  [src |-> src, kind |-> "code", code |-> code, detail |-> ""]

NA == "N/A"
IP_LITERAL == "93.184.216.34"

(***************************************************************************)
(* The environment: what each library call can meet.                       *)
(***************************************************************************)
\* conn.request("HEAD", ...) ; conn.getresponse()
LightOutcomes ==
  [kind : {"response"}, code : {200, 400, 403, 404}]
    \cup [kind : {"socket.timeout", "socket.gaierror", "socket.error",
                  "BadStatusLine"},
          code : {0}]
LightNominal == [kind |-> "response", code |-> 200]
NoLight == [kind |-> "none", code |-> 0]

\* urlopen(url=req, timeout=TIMEOUT) ; response.getcode()
FallbackOutcomes ==
  [kind : {"response"}, code : {200, 204}]
    \cup [kind : {"HTTPError"}, code : {400, 404}]
    \cup [kind : {"URLError", "socket.timeout", "socket.error", "BadStatusLine"},
          code : {0}]
FallbackNominal == [kind |-> "response", code |-> 200]

\* socket.gethostbyname(host_name)
DnsOutcomes == {"resolved", "gaierror"}
\* whois(host): both fields found, both fields empty lists, or an exception
WhoisOutcomes == {"found", "empty", "PywhoisError"}


(***************************************************************************)
(* Inputs.                                                                 *)
(***************************************************************************)
\* the entries an input file is made of: 'www.a', 'https://www.b', 'http://c'
ENTRY_WWW == WWW \o <<"a">>
ENTRY_HTTPS_WWW == HTTPS_WWW \o <<"b">>
ENTRY_HTTP == HTTP \o <<"c">>
BatchEntries == {ENTRY_WWW, ENTRY_HTTPS_WWW, ENTRY_HTTP}

\* every file of at most MaxLines lines
Files == UNION {[1..n -> BatchEntries] : n \in 0..MaxLines}

\* parse_length: 0 (whole file), a list of two ints, or anything else
WholeFile == [kind |-> "whole", start |-> 0, end |-> 0]
NotAPair == [kind |-> "invalid", start |-> 0, end |-> 0]
Range(s, e) == [kind |-> "range", start |-> s, end |-> e]
ParseLengths ==
  {WholeFile, NotAPair} \cup {Range(s, e) : s, e \in 1..(MaxLines + 1)}

\* the script, the interpreter that can run it, and whether whois imported:
\* domainStatus.py is Python 2 source and imports pythonwhois unconditionally
Builds ==
  {<<V1, 2, TRUE>>} \cup {<<V2, v, w>> : v \in {2, 3}, w \in BOOLEAN}

(***************************************************************************)
(* Range selection: add_status_to_html, the head of the method.            *)
(***************************************************************************)
\* [feed_list[i] for i in range(start - 1, end)] reads past the end of the list
RangeIndexError(feed, pl) ==
  pl.kind = "range" /\ pl.start <= pl.end /\ pl.end > Len(feed)

\* a selection that starts one line late: range(start, end)
SelectLines_late(feed, pl) ==
  IF pl.kind = "whole" THEN feed ELSE SubSeq(feed, pl.start + 1, pl.end)

\* url_list, for a parse_length that raises nothing
SelectLines(feed, pl) ==
  IF pl.kind = "whole" THEN feed ELSE SubSeq(feed, pl.start, pl.end)

\* feed_list.index(url) + 1
index(feed, url) == CHOOSE k \in 1..Len(feed) :
  feed[k] = url /\ \A j \in 1..(k - 1) : feed[j] # url

(***************************************************************************)
(* Status Prober: get_status_code and its helper.                          *)
(***************************************************************************)
\* httplib.HTTPConnection(host): _get_hostport raises InvalidURL when the text
\* after the last ':' is neither empty nor a number
InvalidURL(host) ==
  LET i == rfind(host, ":")
      j == rfind(host, "]")
      port == SubSeq(host, i + 1, Len(host))
  IN  i > j /\ port # <<>> /\ \E k \in 1..Len(port) : port[k] \notin Digits

\* response.status in [400, 403]
IsAmbiguous(code) == code \in {400, 403}

\* the except clauses of get_status_code after `except socket.timeout`:
\* `except Exception` in domainStatus.py,
\* `except (socket.gaierror, socket.error)` in domain_status_info.py
ProbeCatches(im, e) == im = V1 \/ e \in {"socket.gaierror", "socket.error"}

\* the last except clause of the helper, the same pair of clauses
HelperCatches(im, e) == im = V1 \/ e \in {"socket.gaierror", "socket.error"}

\* urllibrary.Request exists: urllib2.Request under Python 2; under Python 3
\* urllibrary is the package urllib, which has no attribute Request
HasRequestClass(im, v) == ~(im = V2 /\ v = 3)

\* status_code_helper / _status_code_helper once urlopen has met outcome o:
\* the value returned, or the exception that leaves the helper
HelperResult(im, o) ==
  CASE o.kind = "response" ->
         [exit |-> "return",
          value |-> IF o.code = 200 THEN StatusLine("fallback", 200)
                    ELSE BareCode("fallback", o.code)]
    [] o.kind = "HTTPError" ->
         [exit |-> "return", value |-> StatusLine("fallback", o.code)]
    [] o.kind = "URLError" ->
         [exit |-> "return", value |-> ErrorValue("fallback", "URLError.reason")]
    [] o.kind = "socket.timeout" ->
         [exit |-> "return", value |-> TimedOut("fallback")]
    [] OTHER ->
         IF HelperCatches(im, o.kind)
         THEN [exit |-> "return", value |-> ErrorValue("fallback", o.kind)]
         ELSE [exit |-> "raise", value |-> ErrorValue("fallback", o.kind)]

(***************************************************************************)
(* Address Resolver and Registrar Lookup.                                  *)
(***************************************************************************)
\* get_ip / get_IP
get_ip(d) == IF d = "resolved" THEN IP_LITERAL ELSE NA

\* a test on the flag alone, whatever the script
RegistrarEnabled_flag(im, flag, w) == flag

\* `if name_registrar:` in domainStatus.py, `if name_registrar and WHOIS:` in
\* domain_status_info.py
RegistrarEnabled(im, flag, w) == flag /\ (im = V2 => w)

\* get_domain_name_registrar: domainStatus.py wraps the lookup in
\* try/except Exception, domain_status_info.py does not
RegistrarCatches(im) == im = V1

\* `return ['N/A', 'N/A']`
RegistrarFallback == <<NA, NA>>

\* ['N/A' if i == [] else i for i in [registrar, referral_url]]
RegistrarFields(w) ==
  IF w = "found" THEN <<"registrar", "referral_url">> ELSE <<NA, NA>>

(***************************************************************************)
(* Batch Runner: the loop body of add_status_to_html after the lookups.    *)
(***************************************************************************)
\* the calls one entry goes through, in the order of the loop body:
\* get_status_code normalizes, then probes
ProbeSteps == <<"normalize", "probe">>
\* get_ip normalizes, then resolves
ResolveSteps == <<"normalize", "resolve">>
\* get_domain_name_registrar looks the entry up as it is
RegistrarSteps == <<"registrar">>
\* host_domain = left_strip_url(url), then the row is written
WriteSteps == <<"normalize", "write">>

\* a counter that is never advanced
NextRowNr_stuck(n) == n

\* row_nr += 1
NextRowNr(n) == n + 1

\* the <tr> written for url, and the 'line N' of the progress line
ReportRow(n, url, ip, status, registrar, feed) ==
  [nr |-> n, entry |-> url, host |-> left_strip_url(url), ip |-> ip,
   status |-> status, registrar |-> registrar, line |-> index(feed, url)]


(***************************************************************************)
(* Initial states.                                                         *)
(***************************************************************************)
BatchIdle ==
  /\ url_list = <<>> /\ idx = 1 /\ row_nr = 0 /\ rows = <<>>
  /\ conn = "none" /\ light = NoLight /\ fallbacks = 0 /\ probe = "idle"
  /\ status_code = None /\ ip_value = "" /\ exc = "none"
  /\ faults = 0 /\ net = 0 /\ steps = <<>>

NormIdle == nin = <<>> /\ nout = <<>> /\ nout2 = <<>> /\ npc = "idle"

EquivIdle ==
  eq_rows1 = <<>> /\ eq_rows2 = <<>> /\ eq_exit1 = "idle" /\ eq_exit2 = "idle"

\* DomainStatus(file) constructed, add_status_to_html(parse_length,
\* name_registrar) about to run
Init ==
  /\ \E b \in Builds : impl = b[1] /\ py = b[2] /\ WHOIS = b[3]
  /\ name_registrar \in BOOLEAN
  /\ feed_list \in Files
  /\ parse_length \in ParseLengths
  /\ pc = "start"
  /\ BatchIdle
  /\ NormIdle
  /\ EquivIdle

(***************************************************************************)
(* add_status_to_html.                                                     *)
(***************************************************************************)
\* a nominal outcome is free, any other one spends one unit of MaxFaults
Spend(nominal) ==
  IF nominal THEN faults' = faults ELSE faults < MaxFaults /\ faults' = faults + 1

\* row_nr = 1, the selection of url_list, _create_html_template
Start ==
  /\ pc = "start"
  /\ row_nr' = 1
  /\ \/ /\ parse_length.kind = "invalid"
        /\ pc' = "raised" /\ exc' = "InvalidArgument"
        /\ url_list' = url_list
     \/ /\ RangeIndexError(feed_list, parse_length)
        /\ pc' = "raised" /\ exc' = "IndexError"
        /\ url_list' = url_list
     \/ /\ parse_length.kind # "invalid"
        /\ ~RangeIndexError(feed_list, parse_length)
        /\ url_list' = SelectLines(feed_list, parse_length)
        /\ pc' = IF url_list' = <<>> THEN "done" ELSE "loop"
        /\ exc' = exc
  /\ UNCHANGED <<impl, py, WHOIS, name_registrar, feed_list, parse_length, idx,
                 rows, conn, light, fallbacks, probe, status_code, ip_value,
                 faults, net, steps, normVars, equivVars>>

\* get_status_code(url): host_name = left_strip_url(host),
\* conn = HTTPConnection(host_name, timeout=TIMEOUT), outside the try
GscConstruct ==
  /\ pc = "loop"
  /\ steps' = ProbeSteps
  /\ light' = NoLight /\ fallbacks' = 0 /\ status_code' = None /\ ip_value' = ""
  /\ IF InvalidURL(left_strip_url(url_list[idx]))
     THEN pc' = "raised" /\ exc' = "InvalidURL" /\ probe' = "raised"
          /\ conn' = "none"
     ELSE pc' = "request" /\ exc' = exc /\ probe' = "running" /\ conn' = "open"
  /\ UNCHANGED <<impl, py, WHOIS, name_registrar, feed_list, parse_length,
                 url_list, idx, row_nr, rows, faults, net, normVars, equivVars>>

\* conn.request("HEAD", "/", ...) ; response = conn.getresponse() ; the branch
\* on response.status and the except clauses
GscRequest ==
  /\ pc = "request"
  /\ \E o \in LightOutcomes :
       /\ Spend(o = LightNominal)
       /\ light' = o
       /\ net' = net + 1
       /\ \/ /\ o.kind = "response" /\ IsAmbiguous(o.code)
             /\ pc' = "fallback"
             /\ UNCHANGED <<status_code, probe, exc>>
          \/ /\ o.kind = "response" /\ ~IsAmbiguous(o.code)
             /\ status_code' = StatusLine("light", o.code)
             /\ pc' = "close"
             /\ UNCHANGED <<probe, exc>>
          \/ /\ o.kind = "socket.timeout"
             /\ status_code' = TimedOut("light")
             /\ probe' = "returned"
             /\ pc' = "get_ip"
             /\ exc' = exc
          \/ /\ o.kind \notin {"response", "socket.timeout"}
             /\ ProbeCatches(impl, o.kind)
             /\ status_code' = ErrorValue("light", o.kind)
             /\ pc' = "close"
             /\ UNCHANGED <<probe, exc>>
          \/ /\ o.kind \notin {"response", "socket.timeout"}
             /\ ~ProbeCatches(impl, o.kind)
             /\ pc' = "raised" /\ exc' = o.kind /\ probe' = "raised"
             /\ status_code' = status_code
  /\ UNCHANGED <<impl, py, WHOIS, name_registrar, feed_list, parse_length,
                 url_list, idx, row_nr, rows, conn, fallbacks, ip_value,
                 steps, normVars, equivVars>>

\* status = self.status_code_helper(host_name), called inside the try of
\* get_status_code.  Where urllibrary has no Request class the helper raises
\* AttributeError before any request is sent.
GscFallback ==
  /\ pc = "fallback"
  /\ \/ /\ ~HasRequestClass(impl, py)
        /\ ~ProbeCatches(impl, "AttributeError")
        /\ pc' = "raised" /\ exc' = "AttributeError" /\ probe' = "raised"
        /\ UNCHANGED <<status_code, fallbacks, faults, net>>
     \/ /\ HasRequestClass(impl, py)
        /\ \E o \in FallbackOutcomes :
             LET r == HelperResult(impl, o) IN
             /\ Spend(o = FallbackNominal)
             /\ fallbacks' = fallbacks + 1
             /\ net' = net + 1
             /\ IF r.exit = "return" \/ ProbeCatches(impl, o.kind)
                THEN /\ status_code' = r.value
                     /\ pc' = "close"
                     /\ UNCHANGED <<probe, exc>>
                ELSE /\ pc' = "raised" /\ exc' = o.kind /\ probe' = "raised"
                     /\ status_code' = status_code
  /\ UNCHANGED <<impl, py, WHOIS, name_registrar, feed_list, parse_length,
                 url_list, idx, row_nr, rows, conn, light, ip_value, steps, normVars, equivVars>>

\* conn.close() ; return status
GscClose ==
  /\ pc = "close"
  /\ conn' = "closed"
  /\ probe' = "returned"
  /\ pc' = "get_ip"
  /\ UNCHANGED <<impl, py, WHOIS, name_registrar, feed_list, parse_length,
                 url_list, idx, row_nr, rows, light, fallbacks, status_code,
                 ip_value, exc, faults, net, steps, normVars, equivVars>>

\* the row is written, row_nr advanced, the progress line printed; the locals
\* of the finished iteration are dead and are reset
Emit(ip, registrar) ==
  /\ rows' = Append(rows, ReportRow(row_nr, url_list[idx], ip, status_code,
                                    registrar, feed_list))
  /\ row_nr' = NextRowNr(row_nr)
  /\ idx' = idx + 1
  /\ pc' = IF idx = Len(url_list) THEN "done" ELSE "loop"
  /\ conn' = "none" /\ light' = NoLight /\ fallbacks' = 0 /\ probe' = "idle"
  /\ status_code' = None /\ ip_value' = ""

\* ip_value = str(self.get_ip(url)); without the registrar column the row
\* follows at once
GetIp ==
  /\ pc = "get_ip"
  /\ \E d \in DnsOutcomes :
       /\ Spend(d = "resolved")
       /\ net' = net + 1
       /\ steps' = steps \o ResolveSteps \o
            (IF RegistrarEnabled(impl, name_registrar, WHOIS)
             THEN <<>> ELSE WriteSteps)
       /\ IF RegistrarEnabled(impl, name_registrar, WHOIS)
          THEN /\ ip_value' = get_ip(d)
               /\ pc' = "registrar"
               /\ UNCHANGED <<idx, row_nr, rows, conn, light, fallbacks, probe,
                              status_code>>
          ELSE Emit(get_ip(d), <<>>)
  /\ UNCHANGED <<impl, py, WHOIS, name_registrar, feed_list, parse_length,
                 url_list, exc, normVars, equivVars>>

\* registrar = self.get_domain_name_registrar(url), then the row
Registrar ==
  /\ pc = "registrar"
  /\ \E w \in WhoisOutcomes :
       /\ Spend(w = "found")
       /\ net' = net + 1
       /\ \/ /\ w \in {"found", "empty"}
             /\ Emit(ip_value, RegistrarFields(w))
             /\ steps' = steps \o RegistrarSteps \o WriteSteps
             /\ exc' = exc
          \/ /\ w \notin {"found", "empty"}
             /\ RegistrarCatches(impl)
             /\ Emit(ip_value, RegistrarFallback)
             /\ steps' = steps \o RegistrarSteps \o WriteSteps
             /\ exc' = exc
          \/ /\ w \notin {"found", "empty"}
             /\ ~RegistrarCatches(impl)
             /\ pc' = "raised" /\ exc' = w
             /\ steps' = steps \o RegistrarSteps
             /\ UNCHANGED <<idx, row_nr, rows, conn, light, fallbacks, probe,
                            status_code, ip_value>>
  /\ UNCHANGED <<impl, py, WHOIS, name_registrar, feed_list, parse_length,
                 url_list, normVars, equivVars>>

Next ==
  \/ Start
  \/ GscConstruct
  \/ GscRequest
  \/ GscFallback
  \/ GscClose
  \/ GetIp
  \/ Registrar

Spec == Init /\ [][Next]_vars

(***************************************************************************)
(* The normalizer alone, on every string of the bounded input set.         *)
(***************************************************************************)
\* what an entry can start with, and the characters of its free tail
Prefixes == {<<>>, WWW, HTTP, HTTPS, HTTP_WWW, HTTPS_WWW}
BodyChars == {"a", ".", "w", "h", ":"}
Bodies == UNION {[1..n -> BodyChars] : n \in 0..MaxBody}
NormInputs == {p \o q \o b : p \in Prefixes, q \in Prefixes, b \in Bodies}

InitNorm ==
  /\ impl = V1 /\ py = 2 /\ WHOIS = TRUE /\ name_registrar = FALSE
  /\ feed_list = <<>> /\ parse_length = WholeFile
  /\ pc = "idle"
  /\ BatchIdle
  /\ nin \in NormInputs
  /\ nout = <<>> /\ nout2 = <<>>
  /\ npc = "input"
  /\ EquivIdle

\* host_name = self.left_strip_url(host)
Normalize ==
  /\ npc = "input"
  /\ nout' = left_strip_url(nin)
  /\ npc' = "once"
  /\ UNCHANGED <<batchVars, nin, nout2, equivVars>>

\* host_domain = self.left_strip_url(host_name): the normalizer applied to
\* its own output
Renormalize ==
  /\ npc = "once"
  /\ nout2' = left_strip_url(nout)
  /\ npc' = "twice"
  /\ UNCHANGED <<batchVars, nin, nout, equivVars>>

NextNorm == Normalize \/ Renormalize

SpecNorm == InitNorm /\ [][NextNorm]_vars


(***************************************************************************)
(* The two scripts side by side, on the same file, flag and environment.   *)
(***************************************************************************)
Return(v) == [exit |-> "return", value |-> v, exn |-> "none"]
Raise(e) == [exit |-> "raise", value |-> None, exn |-> e]

\* get_status_code(url) of script im under interpreter v, when the HEAD
\* request meets lo and the urlopen of the helper, if it is sent, meets fo
get_status_code(im, v, url, lo, fo) ==
  IF InvalidURL(left_strip_url(url)) THEN Raise("InvalidURL")
  ELSE IF lo.kind = "response" /\ IsAmbiguous(lo.code) THEN
         IF ~HasRequestClass(im, v)
         THEN IF ProbeCatches(im, "AttributeError")
              THEN Return(ErrorValue("fallback", "AttributeError"))
              ELSE Raise("AttributeError")
         ELSE IF HelperResult(im, fo).exit = "return" \/ ProbeCatches(im, fo.kind)
              THEN Return(HelperResult(im, fo).value)
              ELSE Raise(fo.kind)
  ELSE IF lo.kind = "response" THEN Return(StatusLine("light", lo.code))
  ELSE IF lo.kind = "socket.timeout" THEN Return(TimedOut("light"))
  ELSE IF ProbeCatches(im, lo.kind) THEN Return(ErrorValue("light", lo.kind))
  ELSE Raise(lo.kind)

\* get_domain_name_registrar(url) when the lookup meets w
get_domain_name_registrar(im, w) ==
  IF w \in {"found", "empty"} THEN Return(RegistrarFields(w))
  ELSE IF RegistrarCatches(im) THEN Return(RegistrarFallback)
  ELSE Raise(w)

\* one pass of the loop body of add_status_to_html for the n-th entry: the row
\* written, or the exception that leaves the method
LoopBody(im, v, flag, w, n, url, feed, env) ==
  LET s == get_status_code(im, v, url, env.light, env.fallback)
      ip == get_ip(env.dns)
      r == IF RegistrarEnabled(im, flag, w)
           THEN get_domain_name_registrar(im, env.whois)
           ELSE Return(<<>>)
  IN  IF s.exit = "raise" THEN s
      ELSE IF r.exit = "raise" THEN r
      ELSE Return(ReportRow(n, url, ip, s.value, r.value, feed))

\* what the calls of one pass can meet; a call that no script makes is left
\* at its nominal outcome
Environments(flag) ==
  {e \in [light : LightOutcomes, fallback : FallbackOutcomes,
          dns : DnsOutcomes, whois : WhoisOutcomes] :
     /\ ~(e.light.kind = "response" /\ IsAmbiguous(e.light.code))
          => e.fallback = FallbackNominal
     /\ ~flag => e.whois = "found"}

\* the non-nominal outcomes of an environment
Cost(e) ==
  (IF e.light = LightNominal THEN 0 ELSE 1)
    + (IF e.fallback = FallbackNominal THEN 0 ELSE 1)
    + (IF e.dns = "resolved" THEN 0 ELSE 1)
    + (IF e.whois = "found" THEN 0 ELSE 1)

\* both scripts about to run add_status_to_html on the whole of the same
\* file, with the same flag and the registrar library installed
InitEquiv ==
  /\ impl = V2 /\ py \in {2, 3} /\ WHOIS = TRUE
  /\ name_registrar \in BOOLEAN
  /\ feed_list \in Files
  /\ parse_length = WholeFile
  /\ pc = "compare"
  /\ BatchIdle
  /\ NormIdle
  /\ eq_rows1 = <<>> /\ eq_rows2 = <<>>
  /\ eq_exit1 = (IF feed_list = <<>> THEN "done" ELSE "running")
  /\ eq_exit2 = (IF feed_list = <<>> THEN "done" ELSE "running")

\* the pass for entry idx, taken by each script that is still running, both
\* meeting the same environment
EquivStep ==
  /\ pc = "compare"
  /\ idx <= Len(feed_list)
  /\ eq_exit1 = "running" \/ eq_exit2 = "running"
  /\ \E env \in Environments(name_registrar) :
       LET a == LoopBody(V1, 2, name_registrar, WHOIS, idx, feed_list[idx],
                         feed_list, env)
           b == LoopBody(V2, py, name_registrar, WHOIS, idx, feed_list[idx],
                         feed_list, env)
           last == idx = Len(feed_list)
       IN  /\ faults + Cost(env) <= MaxFaults
           /\ faults' = faults + Cost(env)
           /\ IF eq_exit1 # "running"
              THEN UNCHANGED <<eq_rows1, eq_exit1>>
              ELSE IF a.exit = "raise"
              THEN eq_exit1' = a.exn /\ eq_rows1' = eq_rows1
              ELSE /\ eq_rows1' = Append(eq_rows1, a.value)
                   /\ eq_exit1' = IF last THEN "done" ELSE "running"
           /\ IF eq_exit2 # "running"
              THEN UNCHANGED <<eq_rows2, eq_exit2>>
              ELSE IF b.exit = "raise"
              THEN eq_exit2' = b.exn /\ eq_rows2' = eq_rows2
              ELSE /\ eq_rows2' = Append(eq_rows2, b.value)
                   /\ eq_exit2' = IF last THEN "done" ELSE "running"
  /\ idx' = idx + 1
  /\ UNCHANGED <<impl, py, WHOIS, name_registrar, feed_list, parse_length,
                 url_list, pc, row_nr, rows, conn, light, fallbacks, probe,
                 status_code, ip_value, exc, net, steps, normVars>>

NextEquiv == EquivStep

SpecEquiv == InitEquiv /\ [][NextEquiv]_vars

(***************************************************************************)
(* Entry forms.                                                            *)
(***************************************************************************)
\* the scheme an entry starts with, and the entry without it
SchemeOf(e) ==
  IF StartsWith(e, HTTP) THEN HTTP ELSE IF StartsWith(e, HTTPS) THEN HTTPS ELSE <<>>
AfterScheme(e) == SubSeq(e, Len(SchemeOf(e)) + 1, Len(e))

\* the domain name proper: the entry without scheme and without 'www.'
DomainOf(e) ==
  IF StartsWith(AfterScheme(e), WWW)
  THEN SubSeq(AfterScheme(e), Len(WWW) + 1, Len(AfterScheme(e)))
  ELSE AfterScheme(e)

\* a name with neither path, port nor scheme in it, that neither starts nor
\* ends with a dot
PlainHost(h) ==
  /\ h # <<>>
  /\ \A k \in 1..Len(h) : h[k] \notin {":", "/"}
  /\ h[1] # "." /\ h[Len(h)] # "."

\* the accepted forms of a DomainEntry: bare, 'www.'-prefixed, 'http://'- or
\* 'https://'-prefixed with or without 'www.'
AcceptedForm(e) == PlainHost(DomainOf(e))

\* the forms the scripts list as VALID: bare, 'www.', 'http://www.',
\* 'https://www.'
ListedForm(e) ==
  AcceptedForm(e) /\ (SchemeOf(e) = <<>> \/ StartsWith(AfterScheme(e), WWW))

(***************************************************************************)
(* Claims.                                                                 *)
(***************************************************************************)

\* C1: a completed batch run has emitted exactly one row per selected entry,
\* in input order, and the i-th row carries sequence number i (1..n); in
\* whole-file mode n is the number of lines of the file.
C1_RowsNumberedInOrder ==
  pc = "done" =>
    /\ Len(rows) = Len(url_list)
    /\ parse_length.kind = "whole" => Len(rows) = Len(feed_list)
    /\ \A k \in 1..Len(rows) : rows[k].nr = k /\ rows[k].entry = url_list[k]

\* C1 witness: a completed run over several entries, one of which met a
\* failure, with the second row numbered 2.
C1_Witness ==
  /\ pc = "done"
  /\ Len(rows) >= 2
  /\ rows[2].nr = 2
  /\ \E k \in 1..Len(rows) : rows[k].status.kind # "status" \/ rows[k].ip = NA

\* C2: no domain's failure halts the batch run: for entries in a listed form
\* the run never leaves add_status_to_html by an exception of a per-domain step
\* (only the batch-level argument errors may end it).
C2_NoFailureHaltsRun ==
  (pc = "raised" /\ exc \notin {"InvalidArgument", "IndexError"})
    => ~ListedForm(url_list[idx])

\* C3: whenever the light probe received 400 or 403, get_status_code issued
\* exactly one fallback request and returned the fallback's outcome; for every
\* other light-probe status it issued none.
C3_ExactlyOneFallback ==
  (probe \in {"returned", "raised"} /\ light.kind = "response") =>
    IF light.code \in {400, 403}
    THEN fallbacks = 1 /\ probe = "returned" /\ status_code.src = "fallback"
    ELSE fallbacks = 0 /\ status_code.src = "light"

\* C4: a range with start > end (both lines of the file) is rejected with
\* InvalidArgument before any network call.
C4_ReversedRangeRejected ==
  (parse_length.kind = "range" /\ parse_length.start > parse_length.end
     /\ parse_length.start <= Len(feed_list)
     /\ pc # "start")
    => (pc = "raised" /\ exc = "InvalidArgument" /\ net = 0)

\* C5: for a range [start, end] with 1 <= start <= end <= L the rows written
\* are, in order, the entries of lines start..end, numbered from 1; a completed
\* run has written exactly end-start+1 of them.
C5_RangeSelectsLines ==
  (parse_length.kind = "range"
     /\ 1 <= parse_length.start /\ parse_length.start <= parse_length.end
     /\ parse_length.end <= Len(feed_list))
    => /\ Len(rows) <= parse_length.end - parse_length.start + 1
       /\ \A k \in 1..Len(rows) :
            /\ rows[k].entry = feed_list[parse_length.start + k - 1]
            /\ rows[k].nr = k
       /\ pc = "done" => Len(rows) = parse_length.end - parse_length.start + 1

\* C5 witness: range [2,3] completed: two rows, for lines 2 and 3, numbered 1
\* and 2, where line 2 differs from line 1.
C5_Witness ==
  /\ pc = "done"
  /\ parse_length = Range(2, 3)
  /\ Len(feed_list) >= 3
  /\ feed_list[1] # feed_list[2]
  /\ Len(rows) = 2
  /\ rows[1].entry = feed_list[2] /\ rows[1].nr = 1
  /\ rows[2].entry = feed_list[3] /\ rows[2].nr = 2

\* C6: get_status_code never exits, by return or by exception, with its
\* connection still open.
C6_ConnectionReleased ==
  probe \in {"returned", "raised"} => conn # "open"

\* C7: with the registrar column enabled, a lookup that raises never ends the
\* run: the domain's row is written with ('N/A', 'N/A').
C7_FailedLookupDegrades ==
  exc \notin WhoisOutcomes

\* C8 (as stated): for every entry in an accepted form the canonical host
\* contains no '://' and has no leading 'www.'.
C8_NoSchemeNoWww ==
  (npc \in {"once", "twice"} /\ AcceptedForm(nin))
    => ~Contains(nout, SEP) /\ ~StartsWith(nout, WWW)

\* C8 (amended): for every entry in a listed form (bare, 'www.', 'http://www.',
\* 'https://www.') the canonical host is the entry without its scheme: it
\* contains no '://' and keeps a leading 'www.'; an entry with a scheme and
\* without 'www.' is returned unchanged, scheme included.
C8_SchemeStrippedWwwKept ==
  (npc \in {"once", "twice"} /\ AcceptedForm(nin)) =>
    IF ListedForm(nin)
    THEN /\ nout = AfterScheme(nin)
         /\ ~Contains(nout, SEP)
         /\ StartsWith(nin, WWW) \/ SchemeOf(nin) # <<>> => StartsWith(nout, WWW)
    ELSE nout = nin /\ Contains(nout, SEP)

\* C8 witness: an 'https://www.' entry normalized to its 'www.' host.
C8_Witness ==
  /\ npc = "once"
  /\ StartsWith(nin, HTTPS_WWW)
  /\ AcceptedForm(nin)
  /\ nout = AfterScheme(nin)
  /\ nout # nin

\* C9: left_strip_url is total and idempotent: it returns a string for every
\* input, and applied to its own output it returns that output.
C9_NormalizeIdempotent ==
  /\ npc \in {"once", "twice"} => nout \in Seq(BodyChars \cup LSTRIP_CHARS)
  /\ npc = "twice" => nout2 = nout

\* C9 witness: an entry the normalizer changed, normalized a second time.
C9_Witness ==
  npc = "twice" /\ nout # nin /\ nout2 = nout

\* C10: no transport failure of the probe leaves get_status_code as an
\* exception: the call always returns a value.
C10_ProbeNeverRaises ==
  probe # "raised"


\* C11: when the light probe times out, get_status_code returns the result
\* 'timed out (5000 ms)' of the light probe, has issued no fallback request,
\* and the result is no HTTP status.
C11_LightTimeoutIsFinal ==
  (light.kind = "socket.timeout" /\ probe # "idle") =>
    /\ probe = "returned"
    /\ fallbacks = 0
    /\ status_code.kind = "timeout" /\ status_code.src = "light"
    /\ status_code.code = 5000
    /\ status_code.kind \notin {"status", "code"}

\* C11 witness: the probe of the second entry timed out on its HEAD request
\* and has returned.
C11_Witness ==
  /\ light.kind = "socket.timeout"
  /\ probe = "returned"
  /\ idx = 2
  /\ status_code = [src |-> "light", kind |-> "timeout", code |-> 5000,
                    detail |-> "timed out"]


\* the steps of one entry as the loop body orders them: probe, resolve, the
\* lookup when the registrar column is on, the row
StepsInCodeOrder ==
  <<"normalize", "probe", "normalize", "resolve">>
    \o (IF name_registrar /\ (impl = V2 => WHOIS) THEN <<"registrar">> ELSE <<>>)
    \o <<"normalize", "write">>

C14_PrintedLineIsPosition ==
  (parse_length.kind = "whole"
     \/ (1 <= parse_length.start /\ parse_length.start <= parse_length.end
           /\ parse_length.end <= Len(feed_list)))
    => \A k \in 1..Len(rows) :
         rows[k].line =
           (IF parse_length.kind = "whole" THEN 0 ELSE parse_length.start - 1) + k


\* C13: on the same file, flag and per-domain environment outcomes the two
\* scripts have written the same rows and are both running, both done, or
\* both ended by the same exception at the same entry.
C13_ScriptsAgree ==
  pc = "compare" => eq_rows1 = eq_rows2 /\ eq_exit1 = eq_exit2

====
